---- MODULE Spec2Model ----
(***************************************************************************)
(* Worker-SWR-Plugin: the stale-while-revalidate layer of src/swr.ts over  *)
(* the KV cache store of src/helpers/kv.ts.                                *)
(*                                                                         *)
(* One behaviour is one makeSwr(request, kv, context, {ttl, proxy})        *)
(* configuration, the KV namespace, the clock, the match() calls made on   *)
(* it and the revalidate/put/clear promises in flight.  Every await of the *)
(* code is a step boundary; the code between two awaits is one action.     *)
(***************************************************************************)
EXTENDS Integers, Sequences, FiniteSets

----------------------------------------------------------------------------
(* Bounds of the model *)

MaxCalls == 1
MaxOverlap == 2
MaxTicks == 1
TickMs == 500

(* Program constants *)

EXPIRATION_TTL == 60 * 60 * 24 * 365
MsPerSec == 1000

TaskIds == 1 .. MaxCalls

(* options.ttl: zero (every entry is stale at once) and one second *)
Ttls == {0, 1}

(* The versions of the body the origin answers with *)
Versions == {1}

(* The expiry instants of the records present at the start: already past,  *)
(* and one second after the start.                                         *)
InitExpiries == {0, MsPerSec}

(* The statuses the origin answers a revalidation with: the edges of the   *)
(* two ranges revalidate tests and the statuses next to them.              *)
Statuses == {200, 299, 300, 399, 400, 499, 500}

(* The statuses the origin answers a direct fetch with: match returns the  *)
(* response without looking at it.                                         *)
DirectStatuses == {200, 404, 500}

OrigUrls == {"/target-of-proxy/"}
Urls == OrigUrls \cup {"/proxied/target-of-proxy/"}

----------------------------------------------------------------------------
(* Requests, responses, stored records *)

(* const PROXY_DEFAULT = (r: Request) => r *)
PROXY_DEFAULT(url) == url

(* The rewriting proxy of the README and of the proxy test: a URL that     *)
(* matches 'proxy' gets the prefix '/proxied', any other is left alone.    *)
ProxyRewrite(url) ==
    IF url = "/target-of-proxy/" THEN "/proxied/target-of-proxy/" ELSE url

ProxyNames == {"default", "rewrite"}

ApplyProxy(p, url) == IF p = "default" THEN PROXY_DEFAULT(url) ELSE ProxyRewrite(url)

NoBody == [src |-> "none", url |-> "", ver |-> 0]
CachedBody == [src |-> "cached", url |-> "", ver |-> 0]
ManualBody == [src |-> "manual", url |-> "", ver |-> 0]

(* The origin's body names the URL it was asked for (test server, l.27-31) *)
OriginBody(url, v) == [src |-> "origin", url |-> url, ver |-> v]

NoResponse == [status |-> 0, body |-> NoBody, headers |-> "none"]

OriginResponse(url, status, v) ==
    [status |-> status, body |-> OriginBody(url, v), headers |-> "origin"]

(* new Response('...') as the tests hand to put() *)
ManualResponse == [status |-> 200, body |-> ManualBody, headers |-> "manual"]

(* An ISO-8601 timestamp string is modelled by its whole seconds and its   *)
(* milliseconds field.                                                     *)
ToISOString(ms) == <<ms \div MsPerSec, ms % MsPerSec>>

(* Variant: the timestamp string read to whole seconds *)
ParseDateWholeSeconds(str) == str[1] * MsPerSec

(* new Date(str).getTime() *)
ParseDate(str) == str[1] * MsPerSec + str[2]

NoEntry ==
    [shape |-> "absent", body |-> NoBody, headers |-> "none",
     expireAt |-> 0, cacheTtl |-> <<0, 0>>, expirationTtl |-> 0]

(* type CachedData *)
CachedData(headers, body, expireAt, expirationTtl) ==
    [shape |-> "current", body |-> body, headers |-> headers,
     expireAt |-> expireAt, cacheTtl |-> <<0, 0>>, expirationTtl |-> expirationTtl]

(* type CachedDataDeprecated *)
CachedDataDeprecated(headers, body, cacheTtl, expirationTtl) ==
    [shape |-> "legacy", body |-> body, headers |-> headers,
     expireAt |-> 0, cacheTtl |-> cacheTtl, expirationTtl |-> expirationTtl]

(* A stored JSON object with headers and body but neither expireAt nor     *)
(* cacheTtl.                                                               *)
CachedDataWithoutExpiry(headers, body, expirationTtl) ==
    [shape |-> "bare", body |-> body, headers |-> headers,
     expireAt |-> 0, cacheTtl |-> <<0, 0>>, expirationTtl |-> expirationTtl]

(* A stored value that is not JSON text: kv.get(key, {type: 'json'}) rejects *)
Unparseable ==
    [shape |-> "garbled", body |-> NoBody, headers |-> "none",
     expireAt |-> 0, cacheTtl |-> <<0, 0>>, expirationTtl |-> 60]

(* The number NaN, which new Date(undefined).getTime() gives and which      *)
(* Math.floor and Math.max hand on.  Every remaining time the store returns *)
(* is otherwise >= 0.                                                       *)
NaN == 0 - 1

(* a < b of two numbers: false when either is NaN *)
Less(a, b) == a # NaN /\ b # NaN /\ a < b

Max(a, b) == IF a >= b THEN a ELSE b

(* headerToJson: the response's header entries as an object *)
headerToJson(res) == res.headers

(* Variant: the restored response marked 203 Non-Authoritative Information *)
restoreResponseNonAuthoritative(entry) ==
    [status |-> 203, body |-> entry.body, headers |-> entry.headers]

(* restoreResponse: new Response(body, {headers}); the status is not given *)
(* and so is 200.                                                          *)
restoreResponse(entry) ==
    [status |-> 200, body |-> entry.body, headers |-> entry.headers]

(* Variant: the record written without the response's body *)
StorePutValueWithoutBody(res, expireAt) ==
    CachedData(headerToJson(res), NoBody, expireAt, EXPIRATION_TTL)

(* KVCacheStore.put: the record written; expireAt was computed when put    *)
(* was called.                                                             *)
StorePutValue(res, expireAt) ==
    CachedData(headerToJson(res), res.body, expireAt, EXPIRATION_TTL)

(* The last instant the checker's integers hold.  A JavaScript number     *)
(* holds every instant the code computes; an instant past this one is      *)
(* kept as this one, which is later than every read of a run.              *)
Horizon == 2147483647

(* KVCacheStore.put: const expireAt = new Date().getTime() + ttl * 1000 *)
ExpireAt(t, ttlSec) ==
    IF ttlSec > (Horizon - t) \div MsPerSec
    THEN Horizon
    ELSE t + ttlSec * MsPerSec

(* KVCacheStore.match: the remaining time of a record read at time t *)
RemainingMs(entry, t) ==
    IF entry.shape = "current"
    THEN entry.expireAt - t
    ELSE ParseDate(entry.cacheTtl) - t

(* Variant: the remaining milliseconds rounded up to whole seconds *)
RemainingTimeRoundedUp(entry, t) ==
    IF entry.shape = "absent"
    THEN 0
    ELSE IF entry.shape = "bare"
    THEN NaN
    ELSE Max((RemainingMs(entry, t) + (MsPerSec - 1)) \div MsPerSec, 0)

RemainingTime(entry, t) ==
    IF entry.shape = "absent"
    THEN 0
    ELSE IF entry.shape = "bare"
    THEN NaN
    ELSE Max(RemainingMs(entry, t) \div MsPerSec, 0)

(* Variant: a record past its expiry is not served *)
StoreMatchUnlessExpired(entry, t) ==
    IF entry.shape \in {"current", "legacy"} /\ RemainingMs(entry, t) < 0
    THEN [hit |-> FALSE, res |-> NoResponse, remainingTime |-> 0]
    ELSE [hit |-> entry.shape # "absent",
          res |-> IF entry.shape = "absent" THEN NoResponse ELSE restoreResponse(entry),
          remainingTime |-> RemainingTime(entry, t)]

(* KVCacheStore.match: [Response | null, {remainingTime}] *)
StoreMatch(entry, t) ==
    [hit |-> entry.shape # "absent",
     res |-> IF entry.shape = "absent" THEN NoResponse ELSE restoreResponse(entry),
     remainingTime |-> RemainingTime(entry, t)]

----------------------------------------------------------------------------
(* State *)

VARIABLES
    request,    \* makeSwr's remoteRequest, by its URL
    ttl,        \* options.ttl, seconds
    proxy,      \* options.proxy
    kv,         \* the KV namespace: the record stored under each key
    now,        \* new Date().getTime(), milliseconds
    matches,    \* the match() calls: position and locals of each
    tasks,      \* the revalidate(), put() and clear() promises, in call order
    kvOps,      \* every <<operation, key>> the store adapter was called for
    fetchLog,   \* every URL fetched from the origin
    proxyCalls, \* how many times options.proxy has been invoked
    budget      \* how many calls of match, revalidate, put and clear the worker makes

vars == <<request, ttl, proxy, kv, now, matches, tasks, kvOps, fetchLog,
          proxyCalls, budget>>

config == <<request, ttl, proxy>>

(* The match() calls of the run, numbered in the order they are made *)
Matches == DOMAIN matches

IdleMatch ==
    [pc |-> "idle", forceRevalidate |-> FALSE, onNotMatched |-> "fetch",
     hit |-> FALSE, entry |-> NoEntry, remainingTime |-> 0,
     nGet |-> 0, nWaitUntil |-> 0, nFetch |-> 0, fetchUrl |-> "",
     result |-> NoResponse, error |-> "none", errorRequest |-> ""]

(* makeMatchFunc / makeRevalidateFunc: const proxiedRequest = proxy(request) *)
proxiedRequest == ApplyProxy(proxy, request)

(* Variant: the store keyed by the transformed request *)
StoreKeyTransformed == proxiedRequest

(* The request every storeApi call of swr.ts is given: storeApi.match(request), *)
(* storeApi.put(request, res), storeApi.delete(request); the store's key is     *)
(* req.url.                                                                     *)
StoreKey == request

(* Variant: the fetches given the original request *)
FetchTargetUntransformed == request

(* The request both fetches are given: fetch(proxiedRequest) *)
FetchTarget == proxiedRequest

(* The records a KV namespace can hold before the worker runs: none, one   *)
(* written by an earlier put, or one in the old cacheTtl shape.            *)
InitEntries ==
    {NoEntry}
    \cup {CachedData("cached", CachedBody, e, EXPIRATION_TTL) : e \in InitExpiries}
    \cup {CachedDataDeprecated("cached", CachedBody, ToISOString(e), 60) : e \in InitExpiries}

(* The invocations of options.proxy that makeSwr makes, in order: by       *)
(* makeMatchFunc (l.337), by the makeRevalidateFunc it calls (l.338, l.373) *)
(* and by makeSwr's own makeRevalidateFunc (l.311, l.373).                  *)
ProxyCallSites == <<"match", "match.revalidate", "revalidate">>

(* The invocation whose result a fetch is given: the direct fetch of a     *)
(* miss has makeMatchFunc's proxiedRequest, a revalidation handed to       *)
(* waitUntil has that of the makeRevalidateFunc inside makeMatchFunc, and  *)
(* swr.revalidate() has that of makeSwr's makeRevalidateFunc.              *)
FetchSite(via) ==
    IF via = "miss" THEN ProxyCallSites[1]
    ELSE IF via = "waitUntil" THEN ProxyCallSites[2]
    ELSE ProxyCallSites[3]

(* The state makeSwr returns in: no call made yet, the proxy invoked once  *)
(* per site.                                                               *)
Made ==
    /\ now = 0
    /\ matches = [m \in 1 .. budget |-> IdleMatch]
    /\ tasks = <<>>
    /\ kvOps = {}
    /\ fetchLog = {}
    /\ proxyCalls = Len(ProxyCallSites)

(* The namespace holding record e under the request's URL and nothing else *)
KvHolding(e) == [u \in Urls |-> IF u = request THEN e ELSE NoEntry]

Init ==
    /\ request \in OrigUrls
    /\ ttl \in Ttls
    /\ proxy \in ProxyNames
    /\ \E e \in InitEntries : kv = KvHolding(e)
    /\ budget = MaxCalls
    /\ Made

----------------------------------------------------------------------------
(* The clock *)

Tick ==
    /\ now + TickMs <= MaxTicks * TickMs
    /\ now' = now + TickMs
    /\ UNCHANGED <<config, proxyCalls, budget, kv, matches, tasks, kvOps, fetchLog>>

----------------------------------------------------------------------------
(* revalidate(), put(res), clear() *)

NewTask(kind, owner, via, pc, res, expireAt) ==
    [kind |-> kind, owner |-> owner, via |-> via, pc |-> pc, res |-> res,
     expireAt |-> expireAt, key |-> StoreKey, fetchUrl |-> FetchTarget,
     issued |-> IF pc = "putting" THEN "put"
                ELSE IF pc = "clearing" THEN "delete" ELSE "none",
     wrote |-> "none"]

(* makeRevalidateFunc up to its first await: the fetch is issued *)
StartRevalidate(owner, via) ==
    NewTask("revalidate", owner, via, "fetching", NoResponse, 0)

(* Variant: a server error evicts the entry like a client error *)
RevalidateBranchEvictsOn5xx(status) ==
    IF 400 <= status /\ status <= 599 THEN "clear"
    ELSE IF 200 <= status /\ status <= 299 THEN "put"
    ELSE "none"

(* Variant: a redirect stored like a success *)
RevalidateBranchStoresRedirects(status) ==
    IF 400 <= status /\ status <= 499 THEN "clear"
    ELSE IF 200 <= status /\ status <= 399 THEN "put"
    ELSE "none"

(* Variant: the upper edge of the success range left out *)
RevalidateBranchBelow299(status) ==
    IF 400 <= status /\ status <= 499 THEN "clear"
    ELSE IF 200 <= status /\ status < 299 THEN "put"
    ELSE "none"

(* makeRevalidateFunc: what the status of the origin's response leads to *)
RevalidateBranch(status) ==
    IF 400 <= status /\ status <= 499 THEN "clear"
    ELSE IF 200 <= status /\ status <= 299 THEN "put"
    ELSE "none"

Pending(t) == tasks[t].pc \in {"fetching", "putting", "clearing"}

(* The calls of match, revalidate, put and clear made so far *)
Calls ==
    Cardinality({m \in Matches : matches[m].pc # "idle"})
    + Cardinality({t \in DOMAIN tasks : tasks[t].owner = 0})

(* swr.revalidate() called directly *)
Revalidate ==
    /\ Calls < budget
    /\ tasks' = Append(tasks, StartRevalidate(0, "direct"))
    /\ fetchLog' = fetchLog \cup {FetchTarget}
    /\ UNCHANGED <<config, proxyCalls, budget, kv, now, matches, kvOps>>

(* swr.put(res) called directly: KVCacheStore.put computes expireAt, reads *)
(* the body and issues kv.put                                              *)
Put ==
    /\ Calls < budget
    /\ tasks' = Append(tasks, NewTask("put", 0, "direct", "putting",
                                      ManualResponse, ExpireAt(now, ttl)))
    /\ kvOps' = kvOps \cup {<<"put", StoreKey>>}
    /\ UNCHANGED <<config, proxyCalls, budget, kv, now, matches, fetchLog>>

(* swr.clear() called directly: KVCacheStore.delete issues kv.delete *)
Clear ==
    /\ Calls < budget
    /\ tasks' = Append(tasks, NewTask("clear", 0, "direct", "clearing", NoResponse, 0))
    /\ kvOps' = kvOps \cup {<<"delete", StoreKey>>}
    /\ UNCHANGED <<config, proxyCalls, budget, kv, now, matches, fetchLog>>

(* const res = await fetch(proxiedRequest) resolves in a revalidation *)
RevalidateFetched(t, status, v) ==
    /\ t \in DOMAIN tasks
    /\ tasks[t].pc = "fetching"
    /\ LET res == OriginResponse(tasks[t].fetchUrl, status, v)
           branch == RevalidateBranch(status)
       IN  /\ tasks' = [tasks EXCEPT ![t].res = res,
                           ![t].pc = CASE branch = "clear" -> "clearing"
                                       [] branch = "put" -> "putting"
                                       [] OTHER -> "done",
                           ![t].expireAt = IF branch = "put" THEN ExpireAt(now, ttl) ELSE 0,
                           ![t].issued = IF branch = "none" THEN "none"
                                         ELSE IF branch = "put" THEN "put" ELSE "delete"]
           /\ kvOps' = CASE branch = "clear" -> kvOps \cup {<<"delete", tasks[t].key>>}
                         [] branch = "put" -> kvOps \cup {<<"put", tasks[t].key>>}
                         [] OTHER -> kvOps
    /\ UNCHANGED <<config, proxyCalls, budget, kv, now, matches, fetchLog>>

(* Variant: a write that yields to a stored record with a later expiry *)
KvPutDoneUnlessNewer(t) ==
    /\ t \in DOMAIN tasks
    /\ tasks[t].pc = "putting"
    /\ kv' = IF /\ kv[tasks[t].key].shape = "current"
                /\ kv[tasks[t].key].expireAt > tasks[t].expireAt
             THEN kv
             ELSE [kv EXCEPT ![tasks[t].key] =
                      StorePutValue(tasks[t].res, tasks[t].expireAt)]
    /\ tasks' = [tasks EXCEPT ![t].pc = "done", ![t].wrote = "put", ![t].expireAt = 0]
    /\ UNCHANGED <<config, proxyCalls, budget, now, matches, kvOps, fetchLog>>

(* await kv.put(req.url, JSON.stringify({headers, body, expireAt}), ...) resolves *)
KvPutDone(t) ==
    /\ t \in DOMAIN tasks
    /\ tasks[t].pc = "putting"
    /\ kv' = [kv EXCEPT ![tasks[t].key] = StorePutValue(tasks[t].res, tasks[t].expireAt)]
    /\ tasks' = [tasks EXCEPT ![t].pc = "done", ![t].wrote = "put", ![t].expireAt = 0]
    /\ UNCHANGED <<config, proxyCalls, budget, now, matches, kvOps, fetchLog>>

(* await kv.delete(req.url) resolves *)
KvDeleteDone(t) ==
    /\ t \in DOMAIN tasks
    /\ tasks[t].pc = "clearing"
    /\ kv' = [kv EXCEPT ![tasks[t].key] = NoEntry]
    /\ tasks' = [tasks EXCEPT ![t].pc = "done", ![t].wrote = "delete"]
    /\ UNCHANGED <<config, proxyCalls, budget, now, matches, kvOps, fetchLog>>

(* Variant: the rejection reaches the match() call that made the promise *)
MatchesAfterAwaitedTaskFailure(t) ==
    IF tasks[t].owner \in Matches
    THEN [matches EXCEPT ![tasks[t].owner].pc = "failed",
                         ![tasks[t].owner].error = "revalidate"]
    ELSE matches

(* context.waitUntil(revalidate()): the promise is handed over, match does *)
(* not await it, so its rejection leaves every match() call as it was.     *)
MatchesAfterTaskFailure(t) == matches

(* The fetch, the body read, kv.put or kv.delete of a task rejects *)
TaskFails(t) ==
    /\ t \in DOMAIN tasks
    /\ Pending(t)
    /\ tasks' = [tasks EXCEPT ![t].pc = "failed", ![t].res = NoResponse,
                               ![t].expireAt = 0]
    /\ matches' = MatchesAfterTaskFailure(t)
    /\ UNCHANGED <<config, proxyCalls, budget, kv, now, kvOps, fetchLog>>

----------------------------------------------------------------------------
(* match(option) *)

(* Variants of the condition: an entry with one second left counted as     *)
(* stale; forceRevalidate ignored.                                         *)
ShouldRevalidateWithinOneSecond(forceRevalidate, remainingTime, hit) ==
    forceRevalidate \/ Less(remainingTime, 2) \/ ~hit

ShouldRevalidateUnforced(forceRevalidate, remainingTime, hit) ==
    Less(remainingTime, 1) \/ ~hit

(* makeMatchFunc: if (forceRevalidate || remainingTime < 1 || !kvCache) *)
ShouldRevalidate(forceRevalidate, remainingTime, hit) ==
    forceRevalidate \/ Less(remainingTime, 1) \/ ~hit

(* Variant: no new revalidation while one is in flight *)
WaitUntilCallsDeduplicated(forceRevalidate, remainingTime, hit) ==
    IF /\ ShouldRevalidate(forceRevalidate, remainingTime, hit)
       /\ ~\E t \in DOMAIN tasks : tasks[t].kind = "revalidate" /\ Pending(t)
    THEN 1 ELSE 0

(* How many promises match hands to context.waitUntil when the condition holds *)
WaitUntilCalls(forceRevalidate, remainingTime, hit) ==
    IF ShouldRevalidate(forceRevalidate, remainingTime, hit) THEN 1 ELSE 0

(* Variant: a miss always answered by the direct fetch *)
MatchOutcomeAlwaysFetch(hit, onNotMatched) ==
    IF hit THEN "returned" ELSE "fetching"

(* makeMatchFunc after the waitUntil line: return kvCache, throw           *)
(* NotMatchedError, or return fetch(proxiedRequest)                        *)
MatchOutcome(hit, onNotMatched) ==
    IF hit THEN "returned"
    ELSE IF onNotMatched = "error" THEN "threw"
    ELSE "fetching"

(* Variant: await revalidate() in place of context.waitUntil(revalidate()) *)
PcAfterAwaitedRevalidate(n, outcome) == IF n > 0 THEN "awaiting" ELSE outcome

(* context.waitUntil(revalidate()) returns at once: match goes on to its   *)
(* outcome whether or not it handed a promise over.                        *)
PcAfterWaitUntil(n, outcome) == outcome

(* The request handed to NotMatchedError *)
NotMatchedRequest == request

(* Match calls are numbered in the order they are made *)
NextCall(m) == IF m = 1 THEN TRUE ELSE matches[m - 1].pc # "idle"

(* swr.match(option): storeApi.match(request) reads the record (kv.get),   *)
(* computes remainingTime, and match runs to its return, its throw or its  *)
(* direct fetch without another await.  The read takes effect at the       *)
(* instant kv.get resolves.                                                *)
Match(m, forceRevalidate, onNotMatched) ==
    /\ matches[m].pc = "idle"
    /\ NextCall(m)
    /\ kv[StoreKey].shape # "garbled"
    /\ Calls < budget
    /\ LET sm == StoreMatch(kv[StoreKey], now)
           n == WaitUntilCalls(forceRevalidate, sm.remainingTime, sm.hit)
           outcome == PcAfterWaitUntil(n, MatchOutcome(sm.hit, onNotMatched))
           scheduled == [i \in 1 .. n |-> StartRevalidate(m, "waitUntil")]
       IN  /\ tasks' = tasks \o scheduled
           /\ fetchLog' = fetchLog
                  \cup (IF n > 0 THEN {FetchTarget} ELSE {})
                  \cup (IF outcome = "fetching" THEN {FetchTarget} ELSE {})
           /\ matches' = [matches EXCEPT
                  ![m].pc = outcome,
                  ![m].forceRevalidate = forceRevalidate,
                  ![m].onNotMatched = onNotMatched,
                  ![m].hit = sm.hit,
                  ![m].entry = kv[StoreKey],
                  ![m].remainingTime = sm.remainingTime,
                  ![m].nGet = 1,
                  ![m].nWaitUntil = n,
                  ![m].nFetch = IF outcome = "fetching" THEN 1 ELSE 0,
                  ![m].fetchUrl = IF outcome = "fetching" THEN FetchTarget ELSE "",
                  ![m].result = IF outcome = "returned" THEN sm.res ELSE NoResponse,
                  ![m].error = IF outcome = "threw" THEN "NotMatchedError" ELSE "none",
                  ![m].errorRequest = IF outcome = "threw" THEN NotMatchedRequest ELSE ""]
    /\ kvOps' = kvOps \cup {<<"get", StoreKey>>}
    /\ UNCHANGED <<config, proxyCalls, budget, kv, now>>

(* What kv.get(key, {type: 'json'}) rejects with: the parser's error for a *)
(* value that is not JSON, the store's own otherwise.                      *)
ReadError(entry) == IF entry.shape = "garbled" THEN "SyntaxError" ELSE "kv"

(* kv.get rejects: match rejects with that error *)
MatchReadFails(m) ==
    /\ matches[m].pc = "idle"
    /\ NextCall(m)
    /\ Calls < budget
    /\ matches' = [matches EXCEPT ![m].pc = "failed", ![m].nGet = 1,
                                  ![m].error = ReadError(kv[StoreKey])]
    /\ kvOps' = kvOps \cup {<<"get", StoreKey>>}
    /\ UNCHANGED <<config, proxyCalls, budget, kv, now, tasks, fetchLog>>

(* Variant: a read-through cache, the direct fetch's response stored *)
MatchFetchedStoring(m, status, v) ==
    /\ matches[m].pc = "fetching"
    /\ matches' = [matches EXCEPT
           ![m].pc = "returned",
           ![m].result = OriginResponse(matches[m].fetchUrl, status, v)]
    /\ kv' = [kv EXCEPT ![StoreKey] =
                 StorePutValue(OriginResponse(matches[m].fetchUrl, status, v),
                               ExpireAt(now, ttl))]
    /\ kvOps' = kvOps \cup {<<"put", StoreKey>>}
    /\ UNCHANGED <<config, proxyCalls, budget, now, tasks, fetchLog>>

(* return fetch(proxiedRequest): the direct fetch resolves *)
MatchFetched(m, status, v) ==
    /\ matches[m].pc = "fetching"
    /\ matches' = [matches EXCEPT
           ![m].pc = "returned",
           ![m].result = OriginResponse(matches[m].fetchUrl, status, v)]
    /\ UNCHANGED <<config, proxyCalls, budget, kv, now, tasks, kvOps, fetchLog>>

(* return fetch(proxiedRequest): the direct fetch rejects *)
MatchFetchFails(m) ==
    /\ matches[m].pc = "fetching"
    /\ matches' = [matches EXCEPT ![m].pc = "failed", ![m].error = "fetch"]
    /\ UNCHANGED <<config, proxyCalls, budget, kv, now, tasks, kvOps, fetchLog>>

----------------------------------------------------------------------------

Next ==
    \/ Tick
    \/ Revalidate
    \/ Put
    \/ Clear
    \/ \E m \in Matches, f \in BOOLEAN, o \in {"fetch", "error"} : Match(m, f, o)
    \/ \E m \in Matches : MatchReadFails(m)
    \/ \E m \in Matches, s \in DirectStatuses, v \in Versions : MatchFetched(m, s, v)
    \/ \E m \in Matches : MatchFetchFails(m)
    \/ \E t \in DOMAIN tasks, s \in Statuses, v \in Versions : RevalidateFetched(t, s, v)
    \/ \E t \in DOMAIN tasks : KvPutDone(t)
    \/ \E t \in DOMAIN tasks : KvDeleteDone(t)
    \/ \E t \in DOMAIN tasks : TaskFails(t)

Spec == Init /\ [][Next]_vars

(* The steps of promise t.  context.waitUntil keeps the worker running     *)
(* until the promise settles, and every fetch, body read, kv.put and       *)
(* kv.delete it awaits resolves or rejects.                                *)
TaskStep(t) ==
    \/ \E s \in Statuses, v \in Versions : RevalidateFetched(t, s, v)
    \/ KvPutDone(t)
    \/ KvDeleteDone(t)
    \/ TaskFails(t)

(* The run of the TTL=0 scenario: ttl 0, a rewriting proxy, and either no  *)
(* record or an expired one under the key.                                 *)
FairInit ==
    /\ Init
    /\ ttl = 0
    /\ proxy = "rewrite"
    /\ kv[request] \in {NoEntry, CachedData("cached", CachedBody, 0, EXPIRATION_TTL)}

FairSpec == FairInit /\ [][Next]_vars /\ \A t \in TaskIds : WF_vars(TaskStep(t))

(* The runs over a namespace whose value under the key is not a record of  *)
(* either shape, with the empty namespace beside them.                     *)
DecodeInit ==
    /\ request \in OrigUrls
    /\ ttl \in Ttls
    /\ proxy \in ProxyNames
    /\ \E e \in {NoEntry, CachedDataWithoutExpiry("cached", CachedBody, 60), Unparseable} :
          kv = KvHolding(e)
    /\ budget = MaxCalls
    /\ Made

DecodeSpec == DecodeInit /\ [][Next]_vars

(* The expiry instants of the records compared across the two shapes: on  *)
(* and next to whole seconds, and half way between.                        *)
ShapeExpiries == {0, 999, 1000, 1499, 1500, 2000}

(* The runs over a record of either shape for each of these instants, with *)
(* the empty namespace beside them.                                        *)
ShapeInit ==
    /\ request \in OrigUrls
    /\ ttl = 1
    /\ proxy = "default"
    /\ \E e \in {NoEntry}
            \cup {CachedData("cached", CachedBody, x, EXPIRATION_TTL) : x \in ShapeExpiries}
            \cup {CachedDataDeprecated("cached", CachedBody, ToISOString(x), 60) :
                      x \in ShapeExpiries} :
          kv = KvHolding(e)
    /\ budget = MaxCalls
    /\ Made

ShapeSpec == ShapeInit /\ [][Next]_vars

(* The runs of a configuration whose ttl is as long as the store's own     *)
(* expiration, or one second short of it.                                  *)
LongTtlInit ==
    /\ request \in OrigUrls
    /\ ttl \in {EXPIRATION_TTL - 1, EXPIRATION_TTL}
    /\ proxy \in ProxyNames
    /\ \E e \in {NoEntry, CachedData("cached", CachedBody, 0, EXPIRATION_TTL)} :
          kv = KvHolding(e)
    /\ budget = MaxCalls
    /\ Made

LongTtlSpec == LongTtlInit /\ [][Next]_vars

(* The runs in which the worker makes MaxOverlap calls on one SWR object,  *)
(* so that calls and their promises overlap: a rewriting proxy, and either *)
(* no record or an expired one under the key.                              *)
OverlapInit ==
    /\ request \in OrigUrls
    /\ ttl \in Ttls
    /\ proxy = "rewrite"
    /\ \E e \in {NoEntry, CachedData("cached", CachedBody, 0, EXPIRATION_TTL)} :
          kv = KvHolding(e)
    /\ budget = MaxOverlap
    /\ Made

OverlapSpec == OverlapInit /\ [][Next]_vars

----------------------------------------------------------------------------
(* Properties *)

(* The match() calls that read the store and went on from there *)
Decided(m) ==
    \/ matches[m].pc \in {"returned", "threw", "fetching"}
    \/ matches[m].pc = "failed" /\ matches[m].error \notin {"kv", "SyntaxError"}

(* The revalidations match(m) handed to context.waitUntil *)
WaitUntilTasks(m) ==
    {t \in DOMAIN tasks : tasks[t].owner = m /\ tasks[t].via = "waitUntil"}

FreshHit(m) ==
    /\ Decided(m)
    /\ matches[m].hit
    /\ matches[m].remainingTime >= 1
    /\ ~matches[m].forceRevalidate

RevalidatedHit(m) ==
    /\ Decided(m)
    /\ matches[m].hit
    /\ (Less(matches[m].remainingTime, 1) \/ matches[m].forceRevalidate)

Miss(m, onNotMatched) ==
    /\ Decided(m)
    /\ ~matches[m].hit
    /\ matches[m].onNotMatched = onNotMatched

(* C1: a match that finds an entry with at least one second remaining and  *)
(* is not forced returns the cached response, hands nothing to waitUntil   *)
(* and issues no origin fetch.                                             *)
C1_FreshHitNoRevalidation ==
    \A m \in Matches :
        FreshHit(m) =>
            /\ matches[m].pc = "returned"
            /\ matches[m].result = restoreResponse(matches[m].entry)
            /\ matches[m].entry.shape # "absent"
            /\ matches[m].nWaitUntil = 0
            /\ WaitUntilTasks(m) = {}
            /\ matches[m].nFetch = 0
            /\ (Calls = 1 => fetchLog = {} /\ tasks = <<>>)

C1_Witness ==
    \E m \in Matches :
        FreshHit(m) /\ matches[m].pc = "returned" /\ matches[m].remainingTime = 1

(* C2: a match that finds a stale entry, or any entry while forced, hands  *)
(* exactly one revalidation to waitUntil and returns the entry it read,    *)
(* also after the revalidation has written the fetched response.           *)
C2_StaleHitRevalidatesOnce ==
    \A m \in Matches :
        RevalidatedHit(m) =>
            /\ matches[m].pc = "returned"
            /\ matches[m].result = restoreResponse(matches[m].entry)
            /\ matches[m].entry.shape # "absent"
            /\ matches[m].nWaitUntil = 1
            /\ Cardinality(WaitUntilTasks(m)) = 1
            /\ \A t \in WaitUntilTasks(m) : tasks[t].kind = "revalidate"
            /\ matches[m].nFetch = 0

C2_Witness ==
    \E m \in Matches :
        /\ RevalidatedHit(m)
        /\ matches[m].forceRevalidate
        /\ matches[m].remainingTime >= 1
        /\ \E t \in WaitUntilTasks(m) :
              /\ tasks[t].wrote = "put"
              /\ kv[StoreKey].body = OriginBody(proxiedRequest, 1)
              /\ matches[m].result.body = CachedBody

(* C3: a miss under onNotMatched = 'fetch' is answered by one direct fetch *)
(* of the transformed request, whatever its status, and one revalidation   *)
(* is handed to waitUntil.                                                 *)
C3_MissFetchesOrigin ==
    \A m \in Matches :
        Miss(m, "fetch") =>
            /\ matches[m].pc \in {"fetching", "returned", "failed"}
            /\ matches[m].nFetch = 1
            /\ matches[m].fetchUrl = proxiedRequest
            /\ matches[m].nWaitUntil = 1
            /\ Cardinality(WaitUntilTasks(m)) = 1
            /\ matches[m].pc = "returned" =>
                  \E st \in DirectStatuses, v \in Versions :
                      matches[m].result = OriginResponse(proxiedRequest, st, v)
            /\ matches[m].pc = "failed" => matches[m].error = "fetch"

C3_Witness ==
    \E m \in Matches :
        /\ Miss(m, "fetch")
        /\ matches[m].pc = "returned"
        /\ matches[m].result.status = 404
        /\ proxiedRequest # request

(* C4: a miss under onNotMatched = 'error' fails with NotMatchedError      *)
(* carrying the original request, without a direct fetch, and with one     *)
(* revalidation handed to waitUntil by the time the error is raised.       *)
C4_MissRaisesNotMatched ==
    \A m \in Matches :
        Miss(m, "error") =>
            /\ matches[m].pc = "threw"
            /\ matches[m].error = "NotMatchedError"
            /\ matches[m].errorRequest = request
            /\ matches[m].nFetch = 0
            /\ matches[m].fetchUrl = ""
            /\ matches[m].nWaitUntil = 1
            /\ Cardinality(WaitUntilTasks(m)) = 1

C4_Witness ==
    \E m \in Matches :
        /\ Miss(m, "error")
        /\ matches[m].pc = "threw"
        /\ \E t \in WaitUntilTasks(m) : tasks[t].pc = "fetching"

(* A revalidation that ran alone: the only promise there has been *)
Alone(t) == Len(tasks) = 1 /\ t = 1 /\ tasks[t].kind = "revalidate"

(* C5: after a revalidation that ran alone to completion, a 2xx origin     *)
(* status leaves the store holding the origin's body and headers under the *)
(* key, and a 4xx status leaves no entry under the key.                    *)
C5_RevalidationOutcome ==
    \A t \in DOMAIN tasks :
        (Alone(t) /\ tasks[t].pc = "done") =>
            LET st == tasks[t].res.status IN
            /\ (200 <= st /\ st <= 299) =>
                  /\ kv[request].shape = "current"
                  /\ kv[request].body = tasks[t].res.body
                  /\ kv[request].headers = tasks[t].res.headers
                  /\ kv[request].body = OriginBody(proxiedRequest, tasks[t].res.body.ver)
            /\ (400 <= st /\ st <= 499) => kv[request] = NoEntry

C5_Witness ==
    \E t \in DOMAIN tasks :
        /\ Alone(t)
        /\ tasks[t].pc = "done"
        /\ tasks[t].res.status = 299
        /\ kv[request].body = OriginBody(proxiedRequest, 1)

InRange(st, lo, hi) == lo <= st /\ st <= hi

(* A revalidation whose origin status is in neither range *)
Unclassified(task) ==
    /\ task.kind = "revalidate"
    /\ task.res # NoResponse
    /\ ~InRange(task.res.status, 200, 299)
    /\ ~InRange(task.res.status, 400, 499)

C6_Step ==
    \A t \in DOMAIN tasks' :
        /\ (tasks'[t].pc # "failed" /\ Unclassified(tasks'[t])) =>
              /\ tasks'[t].pc = "done"
              /\ tasks'[t].issued = "none"
              /\ tasks'[t].wrote = "none"
        /\ (t \in DOMAIN tasks /\ tasks[t].pc = "fetching"
              /\ tasks'[t].pc # "failed" /\ Unclassified(tasks'[t])) =>
              /\ kv' = kv
              /\ kvOps' = kvOps

(* C6: a revalidation whose origin status is outside 200..299 and outside  *)
(* 400..499 issues no put and no delete and ends at once: the step that    *)
(* receives the response leaves every stored record as it was.             *)
C6_OtherStatusLeavesStore == [][C6_Step]_vars

C6_Witness ==
    \E t \in DOMAIN tasks :
        /\ Unclassified(tasks[t])
        /\ tasks[t].res.status = 500
        /\ tasks[t].pc = "done"
        /\ kv[request].body = CachedBody

Settled(m) == matches[m].pc \in {"returned", "threw", "failed"}

C7_Step ==
    \A m \in Matches :
        /\ (matches[m].pc = "idle" /\ matches'[m].nWaitUntil > 0) =>
              /\ matches'[m].pc \in {"returned", "threw", "fetching"}
              /\ \A t \in DOMAIN tasks' \ DOMAIN tasks :
                    tasks'[t].owner = m /\ tasks'[t].pc = "fetching"
        /\ Settled(m) => matches'[m] = matches[m]

C7_DirectFetchFree ==
    \A m \in Matches :
        matches[m].pc = "fetching" =>
            \A st \in DirectStatuses : ENABLED MatchFetched(m, st, 1)

(* C7: the step of match() that hands a revalidation to waitUntil is the   *)
(* step that returns, throws or issues the direct fetch, with the          *)
(* revalidation still pending; the direct fetch can be answered whatever   *)
(* the revalidation does, and what a settled match() gave its caller never *)
(* changes afterwards.                                                     *)
C7_MatchNeverWaits == []C7_DirectFetchFree /\ [][C7_Step]_vars

C7_Witness ==
    \E m \in Matches :
        /\ matches[m].pc = "returned"
        /\ \E t \in WaitUntilTasks(m) : Pending(t)

(* C8: when a revalidation handed to waitUntil has failed, the match()     *)
(* that scheduled it is not failed by it: a hit has returned the entry it  *)
(* read, a miss has thrown NotMatchedError or is answered by its own       *)
(* direct fetch.                                                           *)
C8_RevalidationFailureSwallowed ==
    \A m \in Matches :
        \A t \in WaitUntilTasks(m) :
            tasks[t].pc = "failed" =>
                /\ matches[m].error \in {"none", "NotMatchedError", "fetch"}
                /\ matches[m].hit =>
                      /\ matches[m].pc = "returned"
                      /\ matches[m].result = restoreResponse(matches[m].entry)
                /\ (~matches[m].hit /\ matches[m].onNotMatched = "error") =>
                      /\ matches[m].pc = "threw"
                      /\ matches[m].error = "NotMatchedError"
                /\ (~matches[m].hit /\ matches[m].onNotMatched = "fetch") =>
                      /\ matches[m].pc \in {"fetching", "returned", "failed"}
                      /\ matches[m].pc = "failed" <=> matches[m].error = "fetch"
                      /\ matches[m].pc = "returned" =>
                            matches[m].result.body = OriginBody(proxiedRequest, 1)

C8_Witness ==
    \E m \in Matches :
        /\ matches[m].pc = "returned"
        /\ matches[m].hit
        /\ \E t \in WaitUntilTasks(m) : tasks[t].pc = "failed" /\ tasks[t].issued = "put"

(* C9: every get, put and delete issued to the KV namespace, and every     *)
(* record in it, is under the original request's URL; the                  *)
(* transformed URL is used for origin fetches and for nothing else.        *)
C9_KeyIsOriginalRequest ==
    /\ \A op \in kvOps : op[2] = request
    /\ \A u \in Urls : u # request => kv[u] = NoEntry
    /\ \A t \in DOMAIN tasks : tasks[t].key = request /\ tasks[t].fetchUrl = proxiedRequest
    /\ fetchLog \subseteq {proxiedRequest}
    /\ \A m \in Matches : matches[m].fetchUrl \in {"", proxiedRequest}

C9_Witness ==
    /\ proxiedRequest # request
    /\ <<"get", request>> \in kvOps
    /\ <<"put", request>> \in kvOps
    /\ fetchLog = {proxiedRequest}
    /\ kv[request].body = OriginBody(proxiedRequest, 1)

TaskSettled(t) == t \in DOMAIN tasks /\ tasks[t].pc \in {"done", "failed"}

(* What a promise's position may become in one step *)
TaskSuccessors(pc) ==
    CASE pc = "fetching" -> {"fetching", "putting", "clearing", "done", "failed"}
      [] pc = "putting" -> {"putting", "done", "failed"}
      [] pc = "clearing" -> {"clearing", "done", "failed"}
      [] OTHER -> {pc}

C10_NoCancel ==
    \A t \in DOMAIN tasks :
        /\ t \in DOMAIN tasks'
        /\ tasks'[t].pc \in TaskSuccessors(tasks[t].pc)
        /\ tasks'[t].owner = tasks[t].owner
        /\ (tasks[t].pc = "putting" /\ tasks'[t].pc = "done") =>
              /\ tasks'[t].wrote = "put"
              /\ kv'[request].body = tasks[t].res.body

Stored(t) ==
    /\ t \in DOMAIN tasks
    /\ tasks[t].pc = "done"
    /\ tasks[t].wrote = "put"
    /\ kv[request].shape = "current"
    /\ kv[request].body = tasks[t].res.body

(* Promise t has settled, and if it settled after a 2xx response the store *)
(* holds that response's body: the origin's, for a revalidation.           *)
SettledAndStored(t) ==
    /\ TaskSettled(t)
    /\ (tasks[t].pc = "done" /\ tasks[t].issued = "put") =>
          /\ Stored(t)
          /\ tasks[t].kind = "revalidate" =>
                kv[request].body = OriginBody(proxiedRequest, 1)

(* C10: a promise once made stays, only moves forward and settles (done or *)
(* failed); one that got a 2xx response and whose write succeeded settles  *)
(* in a state where the store holds that response's body, so a stale hit   *)
(* that returned the old body is followed by a state where the store holds *)
(* the origin's new body.                                                  *)
C10_RevalidationSettles ==
    /\ [][C10_NoCancel]_vars
    /\ \A t \in TaskIds :
          (t \in DOMAIN tasks /\ Pending(t)) ~> SettledAndStored(t)

C10_Witness ==
    \E m \in Matches :
        /\ RevalidatedHit(m)
        /\ matches[m].remainingTime < 1
        /\ matches[m].result.body = CachedBody
        /\ ttl = 0
        /\ \E t \in WaitUntilTasks(m) :
              Stored(t) /\ kv[request].body = OriginBody(proxiedRequest, 1)

(* A match() call that read a value which is no record of either shape *)
ReadInvalid(m) ==
    \/ matches[m].pc # "idle" /\ matches[m].entry.shape = "bare"
    \/ matches[m].pc = "failed" /\ matches[m].error = "SyntaxError"

(* C11: a match() that reads a present but invalid value (no expireAt and  *)
(* no cacheTtl, or not parseable) behaves as on a miss: no decode error    *)
(* reaches the caller, one revalidation is handed to waitUntil, and the    *)
(* call throws NotMatchedError or goes to the direct fetch as onNotMatched *)
(* says.                                                                   *)
C11_InvalidRecordIsMiss ==
    \A m \in Matches :
        ReadInvalid(m) =>
            /\ matches[m].error \in {"none", "NotMatchedError", "fetch"}
            /\ ~matches[m].hit
            /\ matches[m].nWaitUntil = 1
            /\ Cardinality(WaitUntilTasks(m)) = 1
            /\ matches[m].onNotMatched = "error" => matches[m].pc = "threw"
            /\ matches[m].onNotMatched = "fetch" =>
                  matches[m].pc \in {"fetching", "returned", "failed"}

(* The origin fetches issued so far: the revalidations' and the misses' *)
Fetches ==
    {<<"task", t>> : t \in {u \in DOMAIN tasks : tasks[u].kind = "revalidate"}}
    \cup {<<"match", m>> : m \in {n \in Matches : matches[n].nFetch = 1}}

SiteOf(f) == IF f[1] = "match" THEN FetchSite("miss") ELSE FetchSite(tasks[f[2]].via)

(* C12: every origin fetch, a revalidation's or a miss's, has an           *)
(* invocation of the transform of its own: there are at least as many      *)
(* invocations as fetches, and no two fetches are given the request that   *)
(* the same invocation returned.                                           *)
C12_TransformPerFetch ==
    /\ proxyCalls >= Cardinality(Fetches)
    /\ \A f, g \in Fetches : f # g => SiteOf(f) # SiteOf(g)

(* The record under the key is the one promise t wrote *)
HoldsWriteOf(t) ==
    /\ tasks[t].wrote = "put"
    /\ kv[tasks[t].key].shape = "current"
    /\ kv[tasks[t].key].body = tasks[t].res.body
    /\ kv[tasks[t].key].headers = tasks[t].res.headers

(* C13: whatever ttl is configured, a record written by put has a store    *)
(* expiration (seconds) strictly greater than the ttl (seconds).           *)
C13_HintExceedsTtl ==
    \A t \in DOMAIN tasks :
        HoldsWriteOf(t) => kv[tasks[t].key].expirationTtl > ttl

(* The instant a record of either shape expires at *)
InstantOf(entry) ==
    IF entry.shape = "current"
    THEN entry.expireAt
    ELSE CHOOSE x \in (entry.cacheTtl[1] * MsPerSec) .. ((entry.cacheTtl[1] + 1) * MsPerSec) :
             ToISOString(x) = entry.cacheTtl

(* The record of the other shape for the same instant *)
OtherShape(entry) ==
    IF entry.shape = "current"
    THEN CachedDataDeprecated(entry.headers, entry.body,
                              ToISOString(InstantOf(entry)), entry.expirationTtl)
    ELSE CachedData(entry.headers, entry.body, InstantOf(entry), entry.expirationTtl)

C14_Step ==
    \A m \in Matches :
        (/\ matches[m].pc = "idle"
         /\ matches'[m].pc # "idle"
         /\ matches'[m].entry.shape \in {"current", "legacy"}) =>
            LET mine == matches'[m].entry
                other == StoreMatch(OtherShape(mine), now)
            IN  /\ OtherShape(mine).shape # mine.shape
                /\ InstantOf(OtherShape(mine)) = InstantOf(mine)
                /\ matches'[m].remainingTime = other.remainingTime
                /\ matches'[m].pc = "returned"
                /\ matches'[m].result = other.res
                /\ matches'[m].nFetch = 0
                /\ matches'[m].nWaitUntil =
                      WaitUntilCalls(matches'[m].forceRevalidate,
                                     other.remainingTime, other.hit)
                /\ ~matches'[m].forceRevalidate =>
                      (matches'[m].nWaitUntil = 1 <=> InstantOf(mine) - now < MsPerSec)

(* C14: the step of match() that reads a record of one shape gives the     *)
(* remaining time, the returned response and the revalidation that the     *)
(* record of the other shape for the same expiry instant would give at     *)
(* that read time: returned from the cache, and, unless forced,            *)
(* revalidated exactly when less than one whole second remains.            *)
C14_ShapesAgree == [][C14_Step]_vars

C14_Witness ==
    \E m \in Matches :
        /\ matches[m].pc = "returned"
        /\ matches[m].entry.shape = "legacy"
        /\ matches[m].entry.cacheTtl = ToISOString(1500)
        /\ matches[m].remainingTime = 1
        /\ matches[m].nWaitUntil = 0
        /\ now = TickMs

(* The match() calls that read a stale entry or none *)
StaleOrMiss(m) ==
    /\ Decided(m)
    /\ (Less(matches[m].remainingTime, 1) \/ ~matches[m].hit)

(* C15: each match() that read a stale entry or a miss has a revalidation  *)
(* of its own with its own origin fetch, whatever the other calls have     *)
(* scheduled and whether or not their revalidations are still in flight:   *)
(* as many revalidations as such calls, none shared.                       *)
C15_NoDeduplication ==
    LET S == {m \in Matches : StaleOrMiss(m)} IN
    /\ \A m \in S :
          /\ matches[m].nWaitUntil = 1
          /\ Cardinality(WaitUntilTasks(m)) = 1
          /\ \A t \in WaitUntilTasks(m) :
                /\ tasks[t].kind = "revalidate"
                /\ tasks[t].fetchUrl = proxiedRequest
                /\ <<"task", t>> \in Fetches
    /\ Cardinality(UNION {WaitUntilTasks(m) : m \in S}) = Cardinality(S)

C15_Witness ==
    /\ Cardinality({m \in Matches : StaleOrMiss(m)}) = MaxOverlap
    /\ \A m \in Matches : StaleOrMiss(m) => matches[m].entry = matches[1].entry
    /\ Len(tasks) = MaxOverlap
    /\ \A t \in DOMAIN tasks : tasks[t].pc = "fetching" /\ tasks[t].via = "waitUntil"
    /\ \A t \in DOMAIN tasks : tasks[t].owner = t

(* The promises whose kv.put or kv.delete takes effect in this step *)
Completing ==
    {t \in DOMAIN tasks :
        tasks[t].pc \in {"putting", "clearing"} /\ tasks'[t].pc = "done"}

C16_Step ==
    /\ Cardinality(Completing) <= 1
    /\ Completing = {} => kv' = kv
    /\ \A t \in Completing :
          /\ \A u \in Urls : u # tasks[t].key => kv'[u] = kv[u]
          /\ tasks[t].pc = "putting" =>
                /\ tasks'[t].wrote = "put"
                /\ kv'[tasks[t].key] =
                      CachedData(tasks[t].res.headers, tasks[t].res.body,
                                 tasks[t].expireAt, EXPIRATION_TTL)
          /\ tasks[t].pc = "clearing" =>
                /\ tasks'[t].wrote = "delete"
                /\ kv'[tasks[t].key] = NoEntry

AllSettled == \A t \in DOMAIN tasks : TaskSettled(t)

Writers == {t \in DOMAIN tasks : tasks[t].wrote # "none"}

C16_Settled ==
    (AllSettled /\ Writers # {}) =>
        \/ \E t \in Writers : tasks[t].wrote = "delete" /\ kv[tasks[t].key] = NoEntry
        \/ \E t \in Writers : HoldsWriteOf(t)

(* C16: the step in which a promise's kv.put or kv.delete takes effect     *)
(* leaves the key holding exactly that promise's record (its response's    *)
(* body and headers, the expiry it computed) or nothing, whatever the key  *)
(* held and whatever the other promises have done; no other step changes   *)
(* the store.  So once all have settled the store holds what the last      *)
(* write or delete to take effect left: one writer's record or no entry.   *)
C16_LastWriterWins == [][C16_Step]_vars /\ []C16_Settled

C16_Witness ==
    /\ Len(tasks) = 2
    /\ AllSettled
    /\ \A t \in DOMAIN tasks : tasks[t].kind = "revalidate"
    /\ tasks[1].wrote = "put"
    /\ tasks[2].wrote = "delete"
    /\ HoldsWriteOf(1)
    /\ kv[request].expireAt = ExpireAt(0, ttl)
    /\ now = TickMs

C17_Step ==
    \A m \in Matches :
        /\ (matches[m].pc = "idle" /\ matches'[m].pc # "idle") =>
              /\ matches'[m].nGet = 1
              /\ kvOps' = kvOps \cup {<<"get", request>>}
              /\ kv' = kv
              /\ \A t \in DOMAIN tasks' \ DOMAIN tasks :
                    /\ tasks'[t].kind = "revalidate"
                    /\ tasks'[t].via = "waitUntil"
                    /\ tasks'[t].issued = "none"
              /\ matches'[m].nFetch \in {0, 1}
              /\ matches'[m].nFetch = 1 <=>
                    /\ Decided(m)'
                    /\ ~matches'[m].hit
                    /\ matches'[m].onNotMatched = "fetch"
        /\ (matches[m].pc # "idle" /\ matches'[m] # matches[m]) =>
              /\ matches'[m].nGet = matches[m].nGet
              /\ matches'[m].nFetch = matches[m].nFetch
              /\ kv' = kv
              /\ kvOps' = kvOps
              /\ tasks' = tasks

C17_StoreTouchedByTasksOnly ==
    /\ \A m \in Matches : matches[m].pc # "idle" <=> matches[m].nGet = 1
    /\ \A op \in kvOps :
          op[1] \in {"put", "delete"} =>
              \E t \in DOMAIN tasks : tasks[t].issued = op[1] /\ tasks[t].key = op[2]

(* C17: the step in which match() reads the store makes that one get and   *)
(* no put or delete, leaves the store as it is and issues a direct fetch   *)
(* only on a miss under onNotMatched = 'fetch', at most one; the later     *)
(* steps of the call read and write nothing; every put and delete issued   *)
(* to the store is a promise's: a revalidation's, put()'s or clear()'s.    *)
C17_MatchReadsOnce == [][C17_Step]_vars /\ []C17_StoreTouchedByTasksOnly

C17_Witness ==
    \E m \in Matches :
        /\ Miss(m, "fetch")
        /\ matches[m].pc = "returned"
        /\ matches[m].nGet = 1
        /\ matches[m].nFetch = 1
        /\ kv[request] = NoEntry
        /\ kvOps = {<<"get", request>>}

(* The record under the key was written by a put, and by the only promise  *)
(* that has written so far.                                                *)
WrittenByOnePut ==
    /\ Cardinality(Writers) = 1
    /\ \A t \in Writers : HoldsWriteOf(t)

(* floor((T * 1000 - d) / 1000) clamped at 0, T in seconds and d in ms *)
Remaining(T, d) ==
    LET left == T * 1000 - d
        floor == IF left >= 0 THEN left \div 1000 ELSE 0 - ((0 - left + 999) \div 1000)
    IN  IF floor > 0 THEN floor ELSE 0

C18_Step ==
    /\ \A t \in DOMAIN tasks' :
          (/\ tasks'[t].pc = "putting"
           /\ (t \in DOMAIN tasks => tasks[t].pc # "putting")) =>
              tasks'[t].expireAt = now + ttl * 1000
    /\ WrittenByOnePut =>
          LET d == now - (kv[request].expireAt - ttl * 1000)
              later == now' - (kv[request].expireAt - ttl * 1000)
          IN  /\ d >= 0
              /\ \A m \in Matches :
                    (matches[m].pc = "idle" /\ Decided(m)') =>
                        /\ matches'[m].hit
                        /\ matches'[m].remainingTime = Remaining(ttl, d)
                        /\ matches'[m].remainingTime \in 0 .. ttl
                        /\ d < 1000 => ttl - matches'[m].remainingTime <= 1
              /\ (now' > now /\ kv' = kv) =>
                    /\ StoreMatch(kv[request], now').remainingTime = Remaining(ttl, later)
                    /\ StoreMatch(kv[request], now').remainingTime
                          <= StoreMatch(kv[request], now).remainingTime

(* C18: put computes the expiry as the time of its call plus ttl seconds,  *)
(* and a match() that reads the record d milliseconds after that call,     *)
(* with no other write, gets remainingTime = max(0, floor((ttl * 1000 - d) *)
(* / 1000)): a whole number of seconds from 0 to ttl, at most one below    *)
(* ttl while d < 1000, and never greater at a later read.                  *)
C18_RemainingTimeFormula == [][C18_Step]_vars

C18_Witness ==
    \E m \in Matches :
        /\ WrittenByOnePut
        /\ matches[m].pc = "returned"
        /\ matches[m].entry = kv[request]
        /\ ttl = 1
        /\ kv[request].expireAt = 1000
        /\ now = TickMs
        /\ matches[m].remainingTime = 0
        /\ matches[m].nWaitUntil = 1

(* A record of either shape is under the key *)
EntryPresent == kv[request].shape \in {"current", "legacy"}

(* The match() calls that read a record with less than a second left *)
StaleHit(m) ==
    /\ Decided(m)
    /\ matches[m].entry.shape \in {"current", "legacy"}
    /\ Less(matches[m].remainingTime, 1)

(* Every stale record read was returned, with a revalidation of the call's *)
(* own, however long past its expiry it was and whatever became of the     *)
(* revalidations before.                                                   *)
StaleServed ==
    \A m \in Matches :
        StaleHit(m) =>
            /\ matches[m].pc = "returned"
            /\ matches[m].result = restoreResponse(matches[m].entry)
            /\ matches[m].nWaitUntil = 1
            /\ \E t \in DOMAIN tasks :
                  WaitUntilTasks(m) = {t} /\ tasks[t].kind = "revalidate"

(* A step keeps the record under the key unless a promise of one of these  *)
(* kinds completes a kv.put or kv.delete in it; a match() made while the   *)
(* record is present and stale reads that record.                          *)
EntryKeptUnless(kinds) ==
    /\ (EntryPresent /\ kv'[request] # kv[request]) =>
          \E t \in Completing : tasks[t].kind \in kinds
    /\ \A t \in DOMAIN tasks :
          (/\ tasks[t].kind = "revalidate"
           /\ tasks[t].pc = "fetching"
           /\ tasks'[t].pc \in {"done", "failed"}) => kv' = kv
    /\ \A m \in Matches :
          (EntryPresent /\ matches[m].pc = "idle" /\ Decided(m)') =>
              /\ matches'[m].entry = kv[request]
              /\ Less(StoreMatch(kv[request], now).remainingTime, 1) => StaleHit(m)'

(* C19 as stated: a present entry stops being served only through a        *)
(* revalidation's put, a revalidation's delete or clear() (the backend's   *)
(* expiration lies beyond the time of a run); until then every match()     *)
(* returns it and schedules a revalidation.                                *)
C19_StaleServedUntilRevalidated ==
    [][EntryKeptUnless({"revalidate", "clear"})]_vars /\ []StaleServed

(* C19, amended: as above, with a put() call's write among the events that *)
(* end the serving of the entry.                                           *)
C19_StaleServedUntilWritten ==
    [][EntryKeptUnless({"revalidate", "clear", "put"})]_vars /\ []StaleServed

C19_Witness ==
    /\ EntryPresent
    /\ kv[request].body = CachedBody
    /\ now - InstantOf(kv[request]) = TickMs
    /\ \A m \in Matches :
          /\ StaleHit(m)
          /\ matches[m].result = restoreResponse(kv[request])
    /\ Len(tasks) = MaxOverlap
    /\ tasks[1].pc = "done" /\ tasks[1].res.status = 500
    /\ tasks[2].pc = "fetching"

(* The revalidations that have called put(res) and not failed since *)
Putters ==
    {t \in DOMAIN tasks :
        /\ tasks[t].kind = "revalidate"
        /\ (tasks[t].pc = "putting" \/ tasks[t].wrote = "put")}

(* C20: every revalidation that calls put(res) got a 2xx response from its *)
(* own fetch of the transformed request; a record holding an origin body   *)
(* was written by such a revalidation and by nothing else, so the response *)
(* of a miss's direct fetch, whatever its status, is never the one stored. *)
C20_OnlySuccessStored ==
    /\ \A t \in Putters :
          /\ InRange(tasks[t].res.status, 200, 299)
          /\ \E v \in Versions :
                tasks[t].res = OriginResponse(proxiedRequest, tasks[t].res.status, v)
    /\ \A u \in Urls :
          kv[u].body.src = "origin" =>
              \E t \in Putters : tasks[t].key = u /\ HoldsWriteOf(t)
    /\ \A m \in Matches :
          (matches[m].nFetch = 1 /\ WaitUntilTasks(m) \cap Putters = {}
              /\ Len(tasks) = 1) => kv[request] = matches[m].entry

C20_Witness ==
    \E m \in Matches :
        /\ Miss(m, "fetch")
        /\ matches[m].pc = "returned"
        /\ matches[m].result.status = 500
        /\ kv[request].body = OriginBody(proxiedRequest, 1)
        /\ \E t \in WaitUntilTasks(m) :
              t \in Putters /\ HoldsWriteOf(t) /\ tasks[t].res.status = 200

(* The match() calls that returned the stored record's response *)
ServedFromCache(m) ==
    /\ matches[m].pc = "returned"
    /\ matches[m].hit

(* The revalidations whose put(res) call is in flight *)
Putting == {t \in DOMAIN tasks : tasks[t].kind = "revalidate" /\ tasks[t].pc = "putting"}

(* C21: every response match returns from the store has status 200 and the *)
(* stored record's body and headers; the record put writes for a response  *)
(* does not depend on the response's status, so a revalidation that got    *)
(* any 2xx status writes the record it would have written for 200.         *)
C21_CachedStatusIs200 ==
    /\ \A m \in Matches :
          ServedFromCache(m) =>
              /\ matches[m].result.status = 200
              /\ matches[m].result.body = matches[m].entry.body
              /\ matches[m].result.headers = matches[m].entry.headers
    /\ \A t \in Putting :
          StorePutValue(tasks[t].res, tasks[t].expireAt)
              = StorePutValue([tasks[t].res EXCEPT !.status = 200], tasks[t].expireAt)

C21_Witness ==
    \E m \in Matches : \E t \in Putters :
        /\ ServedFromCache(m)
        /\ tasks[t].res.status = 299
        /\ HoldsWriteOf(t)
        /\ matches[m].entry = kv[request]
        /\ matches[m].result.body = tasks[t].res.body
        /\ matches[m].result.status = 200

====
